---- MODULE Spec2Model ----
(***************************************************************************)
(* Model of sites/parsers.py: the per-site list parsers, detail parsers,   *)
(* normalize overrides and the get_parsers registry.                       *)
(*                                                                         *)
(* Every function of the file is a pure function of its arguments, so the  *)
(* state machine has one action per public entry point: the action draws   *)
(* the arguments from bounded sets and records the call, the functions it  *)
(* invoked on the way, and what it returned or raised.                     *)
(*                                                                         *)
(* Python values are tagged records [t, n, s]: t is the Python type, n the *)
(* numeric payload, s the text payload.  A text is a sequence of lexemes   *)
(* (TLA+ strings), so that concatenation, startswith, substring tests and  *)
(* number parsing are computed and not assumed.  A dict is a function from *)
(* a set of keys to Python values; a list is a sequence.                   *)
(***************************************************************************)
EXTENDS Integers, Sequences, FiniteSets, TLC

VARIABLES pc, arg, calls, ret

vars == <<pc, arg, calls, ret>>

(***************************************************************************)
(* Bounds of the model.                                                    *)
(***************************************************************************)
MaxAnchors == 2
MaxUrls == 2
MaxTiles == 2
MaxChain == 9
MaxGrid == 2

(***************************************************************************)
(* Python values.                                                          *)
(***************************************************************************)
PyNone == [t |-> "None", n |-> 0, s |-> <<>>]
PyInt(i) == [t |-> "int", n |-> i, s |-> <<>>]
PyStr(toks) == [t |-> "str", n |-> 0, s |-> toks]
\* a float: n is the integral part (sign included), s the lexeme of the
\* fractional digits; s = <<"inf">> is the infinity, s = <<"nan">> not-a-number
PyFloat(i, frac) == [t |-> "float", n |-> i, s |-> frac]
\* a list of texts, kept as its items
PyList(items) == [t |-> "list", n |-> Len(items), s |-> items]

IsNone(v) == v.t = "None"
\* Python truthiness of a value
Truthy(v) ==
    CASE v.t = "None" -> FALSE
      [] v.t = "str" -> v.s # <<>>
      [] v.t = "int" -> v.n # 0
      [] v.t = "list" -> v.n # 0
      [] OTHER -> TRUE

\* a or b
PyOr(a, b) == IF Truthy(a) THEN a ELSE b

EmptyDict == [k \in {} |-> PyNone]
\* d[k] = v
DictSet(d, k, v) == [x \in DOMAIN d \cup {k} |-> IF x = k THEN v ELSE d[x]]
\* d.get(k)
DictGet(d, k) == IF k \in DOMAIN d THEN d[k] ELSE PyNone
\* d.pop(k, None)
DictPop(d, k) == [x \in DOMAIN d \ {k} |-> d[x]]

\* the outcome of a call: a returned value or a raised exception
Return(v) == [exc |-> "none", msg |-> <<>>, val |-> v]
Raise(e, m) == [exc |-> e, msg |-> m, val |-> <<>>]

(***************************************************************************)
(* Text helpers (str methods on lexeme sequences).                         *)
(***************************************************************************)
\* sub in s
Contains(s, sub) == \E i \in 1..Len(s) : s[i] = sub
\* s.startswith(tok)
StartsWith(s, tok) == Len(s) > 0 /\ s[1] = tok

RECURSIVE RStrip(_, _)
\* s.rstrip(tok)
RStrip(s, tok) ==
    IF Len(s) > 0 /\ s[Len(s)] = tok THEN RStrip(SubSeq(s, 1, Len(s) - 1), tok) ELSE s

RECURSIVE LStrip(_, _)
LStrip(s, tok) ==
    IF Len(s) > 0 /\ s[1] = tok THEN LStrip(Tail(s), tok) ELSE s

\* s.strip(): leading and trailing blanks removed
Strip(s) == RStrip(LStrip(s, " "), " ")

(***************************************************************************)
(* get_parsers(site_id)                                                    *)
(***************************************************************************)
SITE_IDS == {"balenciaga", "chanel", "louisvuitton", "lululemon", "miumiu", "prada", "ysl"}
\* the identifiers get_parsers is called with: the known ones and others
SiteIdInputs == SITE_IDS \cup {"gucci", "", "Chanel", "YSL", "balenciaga.com", "default"}

\* parsers = {"list_parser": None, "detail_fetcher": None, ...}
NoParsers ==
    [k \in {"list_parser", "detail_fetcher", "detail_parser", "normalize"} |-> "None"]

\* the if/elif chain of get_parsers: the table after the registrations
Registered(site_id) ==
    CASE site_id = "balenciaga" ->
           [NoParsers EXCEPT !["list_parser"] = "balenciaga_list_parser",
                             !["detail_parser"] = "balenciaga_detail_parser"]
      [] site_id = "chanel" ->
           [NoParsers EXCEPT !["list_parser"] = "chanel_list_parser",
                             !["detail_parser"] = "chanel_detail_parser",
                             !["normalize"] = "chanel_normalize"]
      [] site_id = "louisvuitton" ->
           [NoParsers EXCEPT !["list_parser"] = "louisvuitton_list_parser",
                             !["detail_parser"] = "louisvuitton_detail_parser"]
      [] site_id = "lululemon" ->
           [NoParsers EXCEPT !["list_parser"] = "lululemon_list_parser",
                             !["detail_parser"] = "lululemon_detail_parser"]
      [] site_id = "miumiu" ->
           [NoParsers EXCEPT !["list_parser"] = "miumiu_list_parser",
                             !["detail_parser"] = "miumiu_detail_parser"]
      [] site_id = "prada" ->
           [NoParsers EXCEPT !["list_parser"] = "prada_list_parser",
                             !["detail_parser"] = "prada_detail_parser"]
      [] site_id = "ysl" ->
           [NoParsers EXCEPT !["list_parser"] = "ysl_list_parser",
                             !["detail_parser"] = "ysl_detail_parser",
                             !["normalize"] = "ysl_normalize"]
      [] OTHER -> NoParsers

\* faulty variant of get_parsers: an unknown site falls back to the generic list parser
get_parsers_defaulting(site_id) ==
    IF Registered(site_id)["list_parser"] = "None"
    THEN Return([NoParsers EXCEPT !["list_parser"] = "parse_list_generic"])
    ELSE Return(Registered(site_id))

\* faulty variant of get_parsers: every site gets the default normalize filled in
get_parsers_fill_normalize(site_id) ==
    IF Registered(site_id)["list_parser"] = "None"
    THEN Raise("ValueError",
               <<"site_id=", site_id, " must provide list_parser in sites.parsers">>)
    ELSE Return([Registered(site_id) EXCEPT !["normalize"] =
                   IF @ = "None" THEN "default_normalize" ELSE @])

get_parsers(site_id) ==
    IF Registered(site_id)["list_parser"] = "None"
    THEN Raise("ValueError",
               <<"site_id=", site_id, " must provide list_parser in sites.parsers">>)
    ELSE Return(Registered(site_id))

(***************************************************************************)
(* Numbers in text.  A run of digits is one lexeme; DigitsValue is its     *)
(* value.                                                                  *)
(***************************************************************************)
DigitsValue(d) ==
    CASE d = "0" -> 0
      [] d = "1" -> 1
      [] d = "5" -> 5
      [] d = "128" -> 128
      [] d = "199" -> 199
      [] d = "299" -> 299
      [] d = "499" -> 499

IsDigits(tok) == tok \in {"0", "1", "5", "128", "199", "299", "499"}

\* float(s) of Python: [ok] is FALSE for ValueError; otherwise the value.
\* Accepted after strip(): [sign] digits [. digits], inf, nan, and the
\* exponent literal "1e999", which is beyond the double range and reads as inf.
float_unsigned(s) ==
    CASE Len(s) = 1 /\ IsDigits(s[1]) ->
           [ok |-> TRUE, v |-> PyFloat(DigitsValue(s[1]), <<"0">>)]
      [] Len(s) = 3 /\ IsDigits(s[1]) /\ s[2] = "." /\ IsDigits(s[3]) ->
           [ok |-> TRUE, v |-> PyFloat(DigitsValue(s[1]), <<s[3]>>)]
      [] Len(s) = 2 /\ IsDigits(s[1]) /\ s[2] = "." ->
           [ok |-> TRUE, v |-> PyFloat(DigitsValue(s[1]), <<"0">>)]
      [] s = <<"inf">> -> [ok |-> TRUE, v |-> PyFloat(1, <<"inf">>)]
      [] s = <<"1e999">> -> [ok |-> TRUE, v |-> PyFloat(1, <<"inf">>)]
      [] s = <<"nan">> -> [ok |-> TRUE, v |-> PyFloat(0, <<"nan">>)]
      [] OTHER -> [ok |-> FALSE, v |-> PyNone]

\* float(t) of a text without blanks around it; a leading "-" negates the
\* parse of the rest
float_stripped(t) ==
    IF StartsWith(t, "-")
    THEN [float_unsigned(Tail(t)) EXCEPT !.v = IF @.t = "float" THEN PyFloat(0 - @.n, @.s) ELSE @]
    ELSE float_unsigned(IF StartsWith(t, "+") THEN Tail(t) ELSE t)

float(s) == float_stripped(Strip(s))

\* int(x) of a float x: truncation toward zero; OverflowError on an infinity,
\* ValueError on a nan
int_of_float(x) ==
    CASE x.s = <<"inf">> -> Raise("OverflowError", <<"cannot convert float infinity to integer">>)
      [] x.s = <<"nan">> -> Raise("ValueError", <<"cannot convert float NaN to integer">>)
      [] OTHER -> Return(PyInt(x.n))

\* int(float(s)): what the try block of the price microdata evaluates
int_of_parsed(r) ==
    IF r.ok THEN int_of_float(r.v)
    ELSE Raise("ValueError", <<"could not convert string to float">>)

int_float(s) == int_of_parsed(float(s))

(***************************************************************************)
(* base.py: extract_int_price, extract_currency.                           *)
(***************************************************************************)
RECURSIVE price_run(_, _, _)
\* the value of the digit groups from position i on, acc being the value so
\* far; a group is three digits after a thousands separator
price_run(s, i, acc) ==
    IF i + 1 <= Len(s) /\ s[i] = "," /\ s[i + 1] \in {"128", "199", "299", "499"}
    THEN price_run(s, i + 2, acc * 1000 + DigitsValue(s[i + 1]))
    ELSE acc

\* extract_int_price(text): the first numeric run, separators stripped, the
\* decimal part dropped; None when the text is None or holds no number
extract_int_price(text) ==
    IF text.t # "str" \/ ~(\E i \in 1..Len(text.s) : IsDigits(text.s[i]))
    THEN PyNone
    ELSE LET i == CHOOSE j \in 1..Len(text.s) :
                     /\ IsDigits(text.s[j])
                     /\ \A k \in 1..(j - 1) : ~IsDigits(text.s[k])
         IN  PyInt(price_run(text.s, i + 1, DigitsValue(text.s[i])))

CurrencyMarks == {"RM", "EURO", "$", "MYR", "EUR", "USD"}

CurrencyToken(tok) ==
    CASE tok = "RM" -> "MYR"
      [] tok = "EURO" -> "EUR"
      [] tok = "$" -> "USD"
      [] OTHER -> tok

\* extract_currency(text): the token of the first known symbol or code
extract_currency(text) ==
    IF text.t # "str" \/ ~(\E i \in 1..Len(text.s) : text.s[i] \in CurrencyMarks)
    THEN PyNone
    ELSE LET i == CHOOSE j \in 1..Len(text.s) :
                     /\ text.s[j] \in CurrencyMarks
                     /\ \A k \in 1..(j - 1) : text.s[k] \notin CurrencyMarks
         IN  PyStr(<<CurrencyToken(text.s[i])>>)

\* str.upper() on the lexemes the model uses
Upper(s) ==
    [i \in 1..Len(s) |->
        CASE s[i] = "eur" -> "EUR"
          [] s[i] = "usd" -> "USD"
          [] s[i] = "rm" -> "RM"
          [] OTHER -> s[i]]

\* str.lower() on the lexemes the model uses
Lower(s) ==
    [i \in 1..Len(s) |->
        CASE s[i] = "Other Colors" -> "other colors"
          [] s[i] = "Noir" -> "noir"
          [] OTHER -> s[i]]

(***************************************************************************)
(* Documents.  A parsed document is kept as what the parsers query in it.  *)
(* An anchor carries its href, its stripped text and the chain of its      *)
(* ancestors, nearest first, ending with the document object (whose parent *)
(* is None).  Of each ancestor the model keeps what the code asks of it:   *)
(* the first h2/h3 of its subtree, the first itemprop=price and            *)
(* itemprop=priceCurrency elements of its subtree, and its text.           *)
(***************************************************************************)
\* an element probed for an attribute and its text; NoElement is find() = None
NoElement == [present |-> FALSE, content |-> PyNone, text |-> <<>>]
Element(content, text) == [present |-> TRUE, content |-> content, text |-> text]

\* get_text(separator=" ", strip=True) of a node with these text pieces
Glue(a, b) == IF a = <<>> THEN b ELSE IF b = <<>> THEN a ELSE a \o <<" ">> \o b

RECURSIVE JoinText(_)
JoinText(pieces) ==
    IF pieces = <<>> THEN <<>> ELSE Glue(Head(pieces), JoinText(Tail(pieces)))

\* re.search(r"RM\s*[\d,]+|EURO\s*[\d,]+|\$\s*[\d,]+", txt)
RECURSIVE SkipBlanks(_, _)
SkipBlanks(s, i) == IF i <= Len(s) /\ s[i] = " " THEN SkipBlanks(s, i + 1) ELSE i

PricePatternFound(txt) ==
    \E i \in 1..Len(txt) :
        /\ txt[i] \in {"RM", "EURO", "$"}
        /\ LET j == SkipBlanks(txt, i + 1)
           IN  j <= Len(txt) /\ (IsDigits(txt[j]) \/ txt[j] = ",")

(***************************************************************************)
(* _balenciaga_parse_by_product_links                                      *)
(***************************************************************************)
NameWalkDepth == 5
PriceWalkDepth == 8
TextWalkDepth == 5

\* soup.select("a[href*='.html']")
SelectsAnchor(a) == a.href.t = "str" /\ Contains(a.href.s, ".html")

\* lines 30-34: the anchor is kept after the exclusion and domain filters
KeepsAnchor(a) ==
    LET href == PyOr(a.href, PyStr(<<>>)).s
    IN  /\ ~(Contains(href, "searchajax") \/ Contains(href, "prefn"))
        /\ ~(~Contains(href, "balenciaga.com") /\ ~StartsWith(href, "/"))

\* lines 24, 35-38
ProductLink(a, config) ==
    LET href == PyOr(a.href, PyStr(<<>>)).s
        base_url == RStrip(PyOr(DictGet(config, "base_url"), PyStr(<<>>)).s, "/")
    IN  IF StartsWith(href, "/")
        THEN (IF base_url # <<>> THEN base_url \o href ELSE href)
        ELSE href

RECURSIVE NameWalk(_, _, _, _)
\* lines 42-49: parent is ancestors[k] (None beyond the chain), steps are left
NameWalk(ancestors, k, steps, name) ==
    IF steps = 0 \/ k > Len(ancestors) THEN name
    ELSE IF ancestors[k].heading.t = "str" /\ ancestors[k].heading.s # <<>>
         THEN ancestors[k].heading.s
    ELSE NameWalk(ancestors, k + 1, steps - 1, name)

\* lines 40-49
AnchorName(a) ==
    NameWalk(a.ancestors, 1, NameWalkDepth,
             IF a.text # <<>> THEN a.text ELSE <<"(no name)">>)

\* lines 60-64: the outcome of the try block, None when content is empty
TryContent(content_val) ==
    IF Truthy(content_val) THEN int_float(content_val.s) ELSE Return(PyNone)

\* lines 61-66, tried being the outcome of int(float(content_val))
SaleFromMicrodata(price_el, tried) ==
    LET sale_price == IF tried.exc = "ValueError" THEN extract_int_price(price_el.content)
                      ELSE tried.val
    IN  IF IsNone(sale_price) THEN extract_int_price(PyStr(price_el.text)) ELSE sale_price

\* lines 67-69
CurrencyElementValue(curr_el) ==
    IF curr_el.present
    THEN PyOr(PyStr(Upper(PyOr(PyOr(curr_el.content, PyStr(curr_el.text)), PyStr(<<>>)).s)),
              PyNone)
    ELSE PyNone

\* lines 70-71
CurrencyFromMicrodata(price_el, currency) ==
    IF IsNone(currency) THEN extract_currency(PyStr(price_el.text)) ELSE currency

\* lines 59-72, given the outcome of the try block: an exception that the
\* except clause does not name leaves the function
MicrodataResult(node, tried) ==
    IF tried.exc \notin {"none", "ValueError", "TypeError"}
    THEN [exc |-> tried.exc, sale_price |-> PyNone, currency |-> PyNone]
    ELSE [exc |-> "none",
          sale_price |-> SaleFromMicrodata(node.price_el, tried),
          currency |-> CurrencyFromMicrodata(node.price_el, CurrencyElementValue(node.curr_el))]

RECURSIVE PriceWalk(_, _, _)
\* lines 53-73
PriceWalk(ancestors, k, steps) ==
    IF steps = 0 \/ k > Len(ancestors)
    THEN [exc |-> "none", sale_price |-> PyNone, currency |-> PyNone]
    ELSE IF ancestors[k].price_el.present
         THEN MicrodataResult(ancestors[k], TryContent(ancestors[k].price_el.content))
    ELSE PriceWalk(ancestors, k + 1, steps - 1)

RECURSIVE TextWalk(_, _, _)
\* lines 76-84: price_text, None when no container's text matches
TextWalk(ancestors, k, steps) ==
    IF steps = 0 \/ k > Len(ancestors) THEN PyNone
    ELSE IF PricePatternFound(ancestors[k].text) THEN PyStr(ancestors[k].text)
    ELSE TextWalk(ancestors, k + 1, steps - 1)

\* lines 85-86
TextPrice(first, price_text) ==
    [exc |-> "none",
     sale_price |-> IF Truthy(price_text) THEN extract_int_price(price_text) ELSE PyNone,
     currency |-> IF Truthy(price_text) THEN extract_currency(price_text)
                  ELSE first.currency]

\* lines 74-86, first being what the microdata walk left
AfterPriceWalk(a, first) ==
    IF first.exc # "none" \/ ~IsNone(first.sale_price) THEN first
    ELSE TextPrice(first, TextWalk(a.ancestors, 1, TextWalkDepth))

\* lines 51-86: [exc, sale_price, currency] of an anchor
AnchorPrice(a) == AfterPriceWalk(a, PriceWalk(a.ancestors, 1, PriceWalkDepth))

\* lines 88-97, price being what lines 51-86 found: [exc, item]
ItemWithPrice(a, config, price) ==
    [exc |-> price.exc,
     item |-> [product_name |-> PyStr(AnchorName(a)),
               product_link |-> PyStr(ProductLink(a, config)),
               sale_price |-> price.sale_price,
               regular_price |-> price.sale_price,
               currency |-> price.currency,
               brand |-> IF "brand" \in DOMAIN config THEN config["brand"]
                         ELSE PyStr(<<"balenciaga">>),
               product_id |-> PyNone,
               category |-> PyNone]]

\* items.append after the turns that follow: an exception ends the loop
Appended(first, rest) ==
    IF first.exc # "none" THEN [exc |-> first.exc, items |-> <<>>]
    ELSE IF rest.exc # "none" THEN rest
    ELSE [exc |-> "none", items |-> <<first.item>> \o rest.items]

RECURSIVE HarvestItems(_, _)
\* lines 28-97: [exc, items]
HarvestItems(anchors, config) ==
    IF anchors = <<>> THEN [exc |-> "none", items |-> <<>>]
    ELSE IF ~(SelectsAnchor(Head(anchors)) /\ KeepsAnchor(Head(anchors)))
         THEN HarvestItems(Tail(anchors), config)
    ELSE Appended(ItemWithPrice(Head(anchors), config, AnchorPrice(Head(anchors))),
                  HarvestItems(Tail(anchors), config))

RECURSIVE Unique(_, _)
\* lines 98-105: first occurrence of each non-empty link, in order
Unique(items, seen) ==
    IF items = <<>> THEN <<>>
    ELSE LET link == DictGet(Head(items), "product_link")
         IN  IF Truthy(link) /\ link \notin seen
             THEN <<Head(items)>> \o Unique(Tail(items), seen \cup {link})
             ELSE Unique(Tail(items), seen)

\* lines 98-105 after the loop
Deduplicated(harvest) ==
    IF harvest.exc # "none" THEN Raise(harvest.exc, <<"int(float(content_val))">>)
    ELSE Return(Unique(harvest.items, {}))

\* lines 18-105
_balenciaga_parse_by_product_links(doc, config) ==
    Deduplicated(HarvestItems(doc.anchors, config))

(***************************************************************************)
(* base.py: parse_list_generic.  The listing grid of a document is the     *)
(* sequence of item containers the configured selectors match; one record  *)
(* per container with a link, the first record of a link winning.          *)
(***************************************************************************)
GridItem(c, config, default_brand) ==
    [product_name |-> PyStr(c.name),
     product_link |-> PyStr(c.link),
     sale_price |-> extract_int_price(PyStr(c.price_text)),
     currency |-> extract_currency(PyStr(c.price_text)),
     brand |-> IF "brand" \in DOMAIN config THEN config["brand"]
               ELSE PyStr(<<default_brand>>)]

parse_list_generic(doc, config) ==
    Unique([i \in 1..Len(doc.grid) |-> GridItem(doc.grid[i], config, "")], {})

(***************************************************************************)
(* balenciaga_list_parser                                                  *)
(***************************************************************************)
\* lines 110-112, items being what the generic extractor returned: the calls
\* made, in order, and the outcome
AfterGeneric(doc, config, items) ==
    IF items = <<>>
    THEN [calls |-> <<"parse_list_generic", "_balenciaga_parse_by_product_links">>,
          ret |-> _balenciaga_parse_by_product_links(doc, config)]
    ELSE [calls |-> <<"parse_list_generic">>, ret |-> Return(items)]

\* lines 108-112
balenciaga_list_parser(doc, config) ==
    AfterGeneric(doc, config, parse_list_generic(doc, config))

(***************************************************************************)
(* Inputs: configurations and documents.                                   *)
(***************************************************************************)
BaseUrl == <<"https://www.", "balenciaga.com">>

BalenciagaConfigs ==
    { EmptyDict,
      [base_url |-> PyStr(BaseUrl)],
      [base_url |-> PyStr(BaseUrl \o <<"/">>), brand |-> PyStr(<<"Balenciaga">>)] }

RelA == <<"/", "bag-a", ".html">>
AbsA == BaseUrl \o RelA

Hrefs ==
    { PyStr(RelA), PyStr(AbsA), PyStr(<<"/", "bag-b", ".html">>),
      PyStr(<<"/", "searchajax", ".html">>),
      PyStr(AbsA \o <<"?", "prefn", "1">>),
      PyStr(<<"https://other.example", "/", "bag-a", ".html">>),
      PyStr(<<"bag-c", ".html">>),
      PyStr(<<"/", "bags">>),
      PyNone }

\* the ancestors of an anchor with text atext in a document where the first
\* heading enters the subtree at level hAt, the price microdata at level pAt,
\* and a run of visible text at level tAt (level 0: the document has none)
Chain(len, atext, hAt, hTxt, pAt, pEl, cEl, tAt, extra) ==
    [k \in 1..len |->
        [heading |-> IF 0 < hAt /\ hAt <= k THEN PyStr(hTxt) ELSE PyNone,
         price_el |-> IF 0 < pAt /\ pAt <= k THEN pEl ELSE NoElement,
         curr_el |-> IF 0 < pAt /\ pAt <= k THEN cEl ELSE NoElement,
         text |-> JoinText(<<atext,
                             IF 0 < hAt /\ hAt <= k THEN hTxt ELSE <<>>,
                             IF 0 < pAt /\ pAt <= k THEN pEl.text ELSE <<>>,
                             IF 0 < tAt /\ tAt <= k THEN extra ELSE <<>>>>)]]

Anchor(href, text, ancestors) == [href |-> href, text |-> text, ancestors |-> ancestors]

RmText == <<"RM", " ", "1", ",", "299">>

\* product tiles of a link collection: each anchor sits in its own wrapper
\* that holds its price
LinkAnchors ==
    { Anchor(h, v.text, Chain(2, v.text, 0, <<>>, 1, v.price, NoElement, 0, <<>>)) :
        h \in {PyStr(RelA), PyStr(AbsA), PyStr(<<"/", "bag-b", ".html">>)},
        v \in { [text |-> <<"Bag">>, price |-> Element(PyStr(<<"499", ".", "0">>), <<>>)],
                [text |-> <<"Tote">>, price |-> Element(PyNone, RmText)],
                [text |-> <<"Clutch">>, price |-> Element(PyStr(<<"inf">>), <<>>)] } }
    \cup { Anchor(h, <<"Bag">>,
                  Chain(2, <<"Bag">>, 0, <<>>, 1, Element(PyNone, RmText), NoElement, 0, <<>>)) :
              h \in Hrefs }

\* content attributes of price microdata
Contents ==
    { PyNone, PyStr(<<>>), PyStr(<<"499", ".", "0">>), PyStr(<<"499", ".", "5">>),
      PyStr(<<"-", "5">>), PyStr(<<"inf">>), PyStr(<<"1e999">>), PyStr(<<"nan">>),
      PyStr(<<"abc">>), PyStr(<<"1", ",", "299">>) }

CurrencyElements ==
    { NoElement, Element(PyStr(<<"eur">>), <<>>), Element(PyNone, <<"usd">>),
      Element(PyNone, <<>>) }

\* anchors that differ in the price microdata next to them, and in whether
\* the container above it shows a priced text
PriceAnchors ==
    { Anchor(PyStr(RelA), <<"Bag">>,
             Chain(2, <<"Bag">>, 0, <<>>, 1, Element(c, t), ce, tAt, <<"$", "5">>)) :
        c \in Contents, t \in {<<>>, RmText, <<"Sold", " ", "out">>}, ce \in CurrencyElements,
        tAt \in {0, 2} }

\* anchors that differ in how far up the price, the heading and the priced
\* text are
DepthAnchors ==
    { Anchor(PyStr(RelA), atext,
             Chain(len, atext, hAt, hTxt, pAt,
                   Element(PyStr(<<"199">>), <<>>), NoElement, tAt, <<"$", "5">>)) :
        len \in {1, 5, 6, 8, MaxChain}, atext \in {<<>>, <<"Bag">>},
        hAt \in {0, 1, 5, 6}, hTxt \in {<<>>, <<"Le", " ", "Cagole">>},
        pAt \in {0, 8, 9}, tAt \in {0, 1, 5, 6} }

RECURSIVE SeqsUpTo(_, _)
\* the sequences of at most n elements of S
SeqsUpTo(S, n) ==
    IF n = 0 THEN {<<>>}
    ELSE SeqsUpTo(S, n - 1) \cup
         {Append(q, x) : q \in {r \in SeqsUpTo(S, n - 1) : Len(r) = n - 1}, x \in S}

\* the item containers the generic extractor's selectors match
Grids ==
    SeqsUpTo({ [name |-> <<"Bag">>, link |-> AbsA, price_text |-> RmText],
               [name |-> <<"Tote">>, link |-> AbsA, price_text |-> <<>>],
               [name |-> <<"Hat">>, link |-> <<>>, price_text |-> <<"$", "5">>] },
             MaxGrid)

BalenciagaDocs ==
    { [anchors |-> as, grid |-> <<>>] : as \in SeqsUpTo(LinkAnchors, MaxAnchors) }
    \cup { [anchors |-> <<a>>, grid |-> <<>>] : a \in PriceAnchors \cup DepthAnchors }
    \cup { [anchors |-> as, grid |-> g] : as \in SeqsUpTo(LinkAnchors, 1), g \in Grids }

(***************************************************************************)
(* chanel_list_parser                                                      *)
(***************************************************************************)
\* re.search(r"/p/([^/]+)/", url): the path segment after /p/, closed by a /
ChanelIdMatches(url) ==
    { i \in 1..Len(url) :
        /\ i + 4 <= Len(url)
        /\ url[i] = "/" /\ url[i + 1] = "p" /\ url[i + 2] = "/"
        /\ url[i + 3] # "/" /\ url[i + 4] = "/" }

\* lines 165-169
_chanel_extract_product_id_from_url(url) ==
    IF url = <<>> \/ ChanelIdMatches(url) = {} THEN PyNone
    ELSE LET i == CHOOSE j \in ChanelIdMatches(url) : \A k \in ChanelIdMatches(url) : j <= k
         IN  PyStr(<<url[i + 3]>>)

RECURSIVE ChanelUrlItems(_, _, _)
\* lines 179-190
ChanelUrlItems(product_urls, seen, brand) ==
    IF product_urls = <<>> THEN <<>>
    ELSE LET url == Strip(PyOr(Head(product_urls), PyStr(<<>>)).s)
         IN  IF url = <<>> \/ url \in seen
             THEN ChanelUrlItems(Tail(product_urls), seen, brand)
             ELSE <<[product_link |-> PyStr(url),
                     product_id |-> _chanel_extract_product_id_from_url(url),
                     product_name |-> PyStr(<<>>),
                     brand |-> brand]>>
                  \o ChanelUrlItems(Tail(product_urls), seen \cup {url}, brand)

\* lines 172-192; config.list.product_urls is kept as config.product_urls
chanel_list_parser(doc, config) ==
    IF "product_urls" \in DOMAIN config /\ config.product_urls # <<>>
    THEN Return(ChanelUrlItems(config.product_urls, {},
                    IF "brand" \in DOMAIN config THEN config.brand ELSE PyStr(<<"chanel">>)))
    ELSE Return(parse_list_generic(doc, config))

(***************************************************************************)
(* The list parsers that are the generic extractor.                        *)
(***************************************************************************)
louisvuitton_list_parser(doc, config) == Return(parse_list_generic(doc, config))
miumiu_list_parser(doc, config) == Return(parse_list_generic(doc, config))
prada_list_parser(doc, config) == Return(parse_list_generic(doc, config))
ysl_list_parser(doc, config) == Return(parse_list_generic(doc, config))

(***************************************************************************)
(* lululemon_list_parser                                                   *)
(***************************************************************************)
\* json.loads of the data-lulu-attributes payloads the model draws
json_loads(s) ==
    CASE s = <<"{", "\"product\"", ":", "{", "\"productID\"", ":", "\"LW3\"", "}", "}">> ->
           [exc |-> "none", kind |-> "dict", product |-> "dict", productID |-> PyStr(<<"LW3">>)]
      [] s = <<"{", "\"product\"", ":", "\"LW3\"", "}">> ->
           [exc |-> "none", kind |-> "dict", product |-> "str", productID |-> PyNone]
      [] s = <<"{", "}">> ->
           [exc |-> "none", kind |-> "dict", product |-> "absent", productID |-> PyNone]
      [] s = <<"[", "]">> ->
           [exc |-> "none", kind |-> "list", product |-> "absent", productID |-> PyNone]
      [] OTHER ->
           [exc |-> "JSONDecodeError", kind |-> "none", product |-> "absent", productID |-> PyNone]

\* lines 296-297: [exc, productID]
LuluProductId(attributes_json) ==
    IF ~Truthy(attributes_json) THEN [exc |-> "none", productID |-> PyNone]
    ELSE LET attributes == json_loads(attributes_json.s)
         IN  CASE attributes.exc # "none" -> [exc |-> attributes.exc, productID |-> PyNone]
               [] attributes.kind # "dict" -> [exc |-> "AttributeError", productID |-> PyNone]
               [] attributes.product = "str" -> [exc |-> "AttributeError", productID |-> PyNone]
               [] OTHER -> [exc |-> "none", productID |-> attributes.productID]

\* s.split(sep)[0] and s.split(sep)[1] for a one-lexeme separator
RECURSIVE SplitHead(_, _)
SplitHead(s, sep) ==
    IF s = <<>> \/ Head(s) = sep THEN <<>> ELSE <<Head(s)>> \o SplitHead(Tail(s), sep)

SplitRest(s, sep) == SubSeq(s, Len(SplitHead(s, sep)) + 2, Len(s))

\* s.replace(tok, "")
Remove(s, tok) == LET Other(x) == x # tok IN SelectSeq(s, Other)

\* lines 279-290: [sale_price, regular_price]
LuluPrices(price) ==
    LET price_text == price.text
        parts0 == SplitHead(price_text, "Regular Price")
        parts1 == SplitHead(SplitRest(price_text, "Regular Price"), "Regular Price")
        sale == IF price.present /\ Contains(price_text, "Sale Price")
                THEN PyStr(Strip(Remove(parts0, "Sale Price"))) ELSE PyNone
        regular ==
            CASE price.present /\ Contains(price_text, "Sale Price") ->
                   IF Contains(price_text, "Regular Price") THEN PyStr(Strip(parts1)) ELSE PyNone
              [] price.present /\ Contains(price_text, "Regular Price") ->
                   PyStr(Strip(Remove(price_text, "Regular Price")))
              [] OTHER -> PyNone
    IN  [sale_price |-> extract_int_price(sale), regular_price |-> extract_int_price(regular)]

\* line 277
LuluLink(link, base_url) ==
    LET href == IF link.present THEN link.href ELSE PyNone
    IN  IF Truthy(href) /\ ~StartsWith(href.s, "http")
        THEN PyStr(RStrip(base_url, "/") \o href.s)
        ELSE PyOr(href, PyNone)

\* lines 272-316, one tile: [exc, item]; exc is what the except clause
\* caught.  The category of lines 298-302 is found by the pattern of the
\* chanel product id.
LuluTile(product, config) ==
    LET base_url == IF "base_url" \in DOMAIN config THEN config.base_url
                    ELSE PyStr(<<"https://", "shop.lululemon.com">>)
        needs_base == product.link.present /\ Truthy(product.link.href)
                      /\ ~StartsWith(product.link.href.s, "http")
        product_link == LuluLink(product.link, base_url.s)
        pid == LuluProductId(IF product.link.present THEN product.link.attributes ELSE PyNone)
    IN  IF needs_base /\ base_url.t # "str"
        THEN [exc |-> "AttributeError", item |-> EmptyDict]
        ELSE IF pid.exc # "none" THEN [exc |-> pid.exc, item |-> EmptyDict]
        ELSE [exc |-> "none",
              item |-> [product_name |-> product.name,
                        product_link |-> product_link,
                        sale_price |-> LuluPrices(product.price).sale_price,
                        regular_price |-> LuluPrices(product.price).regular_price,
                        color_count |-> product.color_count,
                        productID |-> pid.productID,
                        category |-> IF Truthy(product_link)
                                     THEN _chanel_extract_product_id_from_url(product_link.s)
                                     ELSE PyNone,
                        brand |-> IF "brand" \in DOMAIN config THEN config.brand
                                  ELSE PyStr(<<"lululemon">>)]]

RECURSIVE LuluProductsAborting(_, _)
\* faulty variant of LuluProducts: the first tile that raises ends the loop
LuluProductsAborting(tiles, config) ==
    IF tiles = <<>> THEN <<>>
    ELSE IF LuluTile(Head(tiles), config).exc = "none"
         THEN <<LuluTile(Head(tiles), config).item>> \o LuluProductsAborting(Tail(tiles), config)
    ELSE <<>>

RECURSIVE LuluProducts(_, _)
\* lines 271-317: the records of the tiles that raised nothing
LuluProducts(tiles, config) ==
    IF tiles = <<>> THEN <<>>
    ELSE IF LuluTile(Head(tiles), config).exc = "none"
         THEN <<LuluTile(Head(tiles), config).item>> \o LuluProducts(Tail(tiles), config)
    ELSE LuluProducts(Tail(tiles), config)

\* the messages printed by line 315, one per skipped tile
LuluErrors(tiles, config) ==
    LET Failed(t) == LuluTile(t, config).exc # "none"
    IN  [i \in 1..Len(SelectSeq(tiles, Failed)) |->
            LuluTile(SelectSeq(tiles, Failed)[i], config).exc]

\* lines 261-317
lululemon_list_parser(doc, config) ==
    IF doc.tiles = <<>> THEN Return(<<>>) ELSE Return(LuluProducts(doc.tiles, config))

(***************************************************************************)
(* balenciaga_detail_parser.  The detail document is kept as the elements  *)
(* the parser selects: name_el, desc_el, img_el, the breadcrumb spans, the *)
(* button with a pid, price_el, curr_el.                                   *)
(***************************************************************************)
NoImage == [present |-> FALSE, src |-> PyNone, data_src |-> PyNone]
Image(src, data_src) == [present |-> TRUE, src |-> src, data_src |-> data_src]

\* lexemes that match [A-Za-z0-9_-]+
Identifiers == {"812345", "AS1160", "bag-a"}

\* the first of the positions where a pattern matches, 0 when there is none
FirstMatch(positions) ==
    IF positions = {} THEN 0
    ELSE CHOOSE i \in positions : \A j \in positions : i <= j

\* group(1) of a match at position i, None when i = 0
Group1(s, i) == IF i = 0 THEN PyNone ELSE PyStr(<<s[i + 1]>>)

\* lines 132-138: re.search(r"pid=([A-Za-z0-9_-]+)", url_attr)
PidFromButton(btn) ==
    IF btn.present
    THEN LET url_attr == PyOr(btn.content, PyStr(<<>>)).s
         IN  Group1(url_attr,
                    FirstMatch({i \in 1..Len(url_attr) :
                                  /\ url_attr[i] = "pid=" /\ i + 1 <= Len(url_attr)
                                  /\ url_attr[i + 1] \in Identifiers}))
    ELSE PyNone

\* lines 139-143, pid being what the button gave:
\* re.search(r"/([A-Za-z0-9_-]+)_[A-Z]\.jpg", src)
PidFromImage(pid, img_el) ==
    IF ~Truthy(pid) /\ img_el.present
    THEN LET src == PyOr(PyOr(img_el.src, img_el.data_src), PyStr(<<>>)).s
         IN  Group1(src,
                    FirstMatch({i \in 1..Len(src) :
                                  /\ src[i] = "/" /\ i + 3 <= Len(src)
                                  /\ src[i + 1] \in Identifiers
                                  /\ src[i + 2] \in {"_A", "_F"} /\ src[i + 3] = ".jpg"}))
    ELSE pid

\* the first breadcrumb span with text (lines 126-131), None when there is none
RECURSIVE BreadcrumbCategory(_)
BreadcrumbCategory(bread) ==
    IF bread = <<>> THEN PyNone
    ELSE IF Truthy(Head(bread)) THEN Head(bread)
    ELSE BreadcrumbCategory(Tail(bread))

\* out[key] = value when cond, out otherwise
SetIf(cond, out, key, value) == IF cond THEN DictSet(out, key, value) ELSE out

\* lines 116-145: the fields before the price
BalenciagaDetailHead(raw) ==
    SetIf(Truthy(PidFromImage(PidFromButton(raw.btn), raw.img_el)),
      SetIf(Truthy(BreadcrumbCategory(raw.bread)),
        SetIf(raw.img_el.present,
          SetIf(raw.desc_el.present,
            SetIf(raw.name_el.present, EmptyDict, "product_name", PyStr(raw.name_el.text)),
            "product_description", PyStr(raw.desc_el.text)),
          "image_url", PyOr(PyOr(raw.img_el.src, raw.img_el.data_src), PyNone)),
        "category", BreadcrumbCategory(raw.bread)),
      "product_id", PidFromImage(PidFromButton(raw.btn), raw.img_el))

\* lines 146-155, tried being the outcome of int(float(content_val)): with a
\* price element the key is always set, from the content or from the text
BalenciagaDetailPrice(out, price_el, tried) ==
    IF ~price_el.present THEN Return(out)
    ELSE IF tried.exc \notin {"none", "ValueError", "TypeError"}
         THEN Raise(tried.exc, <<"int(float(content_val))">>)
    ELSE Return(DictSet(out, "sale_price", SaleFromMicrodata(price_el, tried)))

\* lines 156-159, priced being the outcome so far
BalenciagaDetailCurrency(priced, curr_el) ==
    IF priced.exc = "none" /\ curr_el.present
    THEN Return(DictSet(priced.val, "currency", CurrencyElementValue(curr_el)))
    ELSE priced

\* lines 115-159
balenciaga_detail_parser(raw, config) ==
    BalenciagaDetailCurrency(
        BalenciagaDetailPrice(BalenciagaDetailHead(raw), raw.price_el,
                              TryContent(raw.price_el.content)),
        raw.curr_el)

(***************************************************************************)
(* chanel_detail_parser                                                    *)
(***************************************************************************)
\* the pieces of s between the separators sep, in order
RECURSIVE Split(_, _)
Split(s, sep) ==
    IF ~Contains(s, sep) THEN <<s>>
    ELSE <<SplitHead(s, sep)>> \o Split(SplitRest(s, sep), sep)

\* [p.strip() for p in pieces if p.strip()]
StrippedParts(pieces) ==
    LET NonBlank(q) == Strip(q) # <<>>
    IN  [i \in 1..Len(SelectSeq(pieces, NonBlank)) |-> Strip(SelectSeq(pieces, NonBlank)[i])]

\* lines 213-214, parts being the stripped pieces between the line breaks
ChanelAttributes(out, parts) ==
    IF Len(parts) >= 1 THEN DictSet(out, "attributes", PyList(<<"Material">> \o parts[1]))
    ELSE out

\* lines 216-218, colors being the stripped pieces between the commas; a
\* colour the model draws is a single lexeme
ChanelColorFields(out, colors) ==
    DictSet(DictSet(out, "color_list", PyList([i \in 1..Len(colors) |-> colors[i][1]])),
            "color_count", PyInt(Len(colors)))

\* lines 215-218
ChanelColors(out, parts) ==
    IF Len(parts) >= 2 THEN ChanelColorFields(out, StrippedParts(Split(parts[2], ",")))
    ELSE out

\* lines 197-201 and 202-206 of chanel, 494-500 of ysl, 403-405 of miumiu:
\* out[key] is the text of the element when it is there and has text
TextField(out, key, el) ==
    IF el.present /\ el.text # <<>> THEN DictSet(out, key, PyStr(el.text)) ELSE out

\* lines 207-218
ChanelDetails(out, soup) ==
    IF soup.details_el.present
    THEN ChanelColors(ChanelAttributes(out, StrippedParts(soup.details_el.segments)),
                      StrippedParts(soup.details_el.segments))
    ELSE out

\* lines 219-226 of chanel and 479-485 of ysl: the three price fields
PriceFields(out, price_el) ==
    IF price_el.present
    THEN DictSet(DictSet(DictSet(out, "sale_price", extract_int_price(PyStr(price_el.text))),
                         "currency", extract_currency(PyStr(price_el.text))),
                 "regular_price", extract_int_price(PyStr(price_el.text)))
    ELSE out

\* lines 227-232 of chanel and 502-507 of ysl
ImageField(out, img_el) ==
    IF img_el.present /\ Truthy(img_el.src)
    THEN DictSet(out, "image_url", PyStr(Strip(img_el.src.s)))
    ELSE out

\* lines 195-233
chanel_detail_parser(soup, config) ==
    Return(ImageField(
             PriceFields(
               ChanelDetails(
                 TextField(TextField(EmptyDict, "product_description", soup.desc_el),
                           "category", soup.cat_el),
                 soup),
               soup.price_el),
             soup.img_el))

(***************************************************************************)
(* louisvuitton, miumiu, prada and ysl detail parsers                      *)
(***************************************************************************)
\* lines 254-255
louisvuitton_detail_parser(raw, config) == Return(EmptyDict)

\* lines 413-424 of miumiu: the span of the paragraph after the Color label;
\* lines 457-466 of prada: the text of the paragraph after the Color label.
\* label is the first labelling paragraph, value the text read after it
ColorList(out, label, value) ==
    DictSet(out, "color_list",
            IF label.present /\ value.present /\ value.text # <<>>
            THEN PyList(<<value.text[1]>>) ELSE PyList(<<>>))

\* lines 401-425; raw.soon: some div says "Soon available online" (lines 406-412)
miumiu_detail_parser(raw, config) ==
    Return(ColorList(DictSet(TextField(EmptyDict, "product_name", raw.h1), "attributes",
                             IF raw.soon THEN PyList(<<"Soon available online">>)
                             ELSE PyList(<<>>)),
                     raw.color_label, raw.color_value))

\* lines 442-468; raw.picture.content is the first usable URL of lines
\* 446-456, None when the picture has none
prada_detail_parser(raw, config) ==
    Return(DictSet(ColorList(SetIf(raw.picture.present /\ Truthy(raw.picture.content),
                                   EmptyDict, "image_url", raw.picture.content),
                             raw.color_label, raw.color_value),
                   "attributes", PyList(<<>>)))

\* lines 487-492
YslColor(out, soup) ==
    IF soup.color_el.present /\ soup.color_el.text # <<>>
       /\ Lower(soup.color_el.text) # <<"other colors">>
    THEN DictSet(DictSet(out, "color_list", PyList(<<soup.color_el.text[1]>>)),
                 "color_count", PyInt(1))
    ELSE out

\* lines 478-509
ysl_detail_parser(soup, config) ==
    Return(ImageField(TextField(YslColor(PriceFields(EmptyDict, soup.price_el), soup),
                                "product_description", soup.desc_el),
                      soup.img_el))

(***************************************************************************)
(* lululemon_detail_parser.  The detail document is kept as the JSON-LD    *)
(* script (absent, unparsable, or the value it parses to), the price       *)
(* payload the sku locates in the page text, the description and the       *)
(* colour tiles.                                                           *)
(***************************************************************************)
\* lines 349-360: the list-price/sale-price pair, found only through the sku
LuluDetailPrices(raw) ==
    IF Truthy(raw.ld.sku) /\ raw.prices.present
    THEN [list_price |-> PyStr(raw.prices.list_price), sale_price |-> PyStr(raw.prices.sale_price)]
    ELSE [list_price |-> PyNone, sale_price |-> PyNone]

\* float(x) if x else None, for a text x or None
FloatOrNone(x) == IF Truthy(x) THEN float(x.s) ELSE [ok |-> TRUE, v |-> PyNone]

\* lines 374-375
LuluRating(rating_value) ==
    IF Truthy(rating_value) /\ rating_value # PyStr(<<"null">>)
    THEN (IF rating_value.t = "str" THEN float(rating_value.s)
          ELSE [ok |-> TRUE, v |-> rating_value])
    ELSE [ok |-> TRUE, v |-> PyNone]

\* lines 379-388, the three conversions done; a failed one was raised inside
\* the try block and line 389 caught it
LuluDetailRecord(raw, sale, regular, rating) ==
    IF ~(sale.ok /\ regular.ok /\ rating.ok) THEN EmptyDict
    ELSE [product_description |-> raw.description,
          sale_price |-> sale.v,
          regular_price |-> regular.v,
          image_url |-> raw.ld.image,
          rating |-> rating.v,
          rating_n |-> raw.ld.review_count,
          color_count |-> raw.colors,
          color_count_number |-> IF Truthy(raw.colors) THEN PyInt(raw.colors.n) ELSE PyNone]

\* lines 363-391; lines 320-327 and 369 leave when the JSON-LD script is
\* missing or does not parse; a JSON-LD value that is a list has no .get:
\* AttributeError, caught by line 389
lululemon_detail_parser(raw, config) ==
    IF ~raw.present \/ raw.ld.script \notin {"list", "dict"} \/ raw.ld.script = "list"
    THEN Return(EmptyDict)
    ELSE Return(LuluDetailRecord(raw, FloatOrNone(LuluDetailPrices(raw).sale_price),
                                 FloatOrNone(LuluDetailPrices(raw).list_price),
                                 LuluRating(raw.ld.rating_value)))

(***************************************************************************)
(* core/normalize.py: default_normalize, the default field mapping: the    *)
(* raw names of a field are renamed to its canonical name.                 *)
(***************************************************************************)
\* the record with the raw key `from` renamed to `to` (the canonical value
\* wins when both are there)
Renamed(rec, from, to) ==
    IF from \notin DOMAIN rec THEN rec
    ELSE IF to \in DOMAIN rec THEN DictPop(rec, from)
    ELSE DictPop(DictSet(rec, to, rec[from]), from)

default_normalize(item) ==
    Renamed(Renamed(item, "productID", "product_id"), "rating_n", "rating_count")

(***************************************************************************)
(* chanel_normalize, ysl_normalize                                         *)
(***************************************************************************)
\* faulty variant of BackfillRegular: the regular price is always overwritten
BackfillAlways(rec) ==
    IF ~IsNone(DictGet(rec, "sale_price"))
    THEN DictSet(rec, "regular_price", rec["sale_price"])
    ELSE rec

\* lines 240-241 and 528-529
BackfillRegular(rec) ==
    IF IsNone(DictGet(rec, "regular_price")) /\ ~IsNone(DictGet(rec, "sale_price"))
    THEN DictSet(rec, "regular_price", rec["sale_price"])
    ELSE rec

\* lines 242-243 and 530-531: for key in keys: rec.pop(key, None)
PopAll(rec, keys) == [k \in DOMAIN rec \ keys |-> rec[k]]

\* faulty variant of chanel_normalize: the fields are stripped before the mapping
chanel_normalize_strip_first(item) ==
    BackfillRegular(default_normalize(PopAll(item, {"rating", "rating_count", "raw"})))

\* lines 236-244
chanel_normalize(item) ==
    PopAll(BackfillRegular(default_normalize(item)), {"rating", "rating_count", "raw"})

\* lines 516-519, words being name.split(); the words drawn whose first
\* character is upper case are Sac, Loulou, Bag and LE
FirstCapitalized(words) ==
    IF \E i \in 1..Len(words) : words[i] \in {"Sac", "Loulou", "Bag", "LE"}
    THEN <<words[FirstMatch({i \in 1..Len(words) :
                               words[i] \in {"Sac", "Loulou", "Bag", "LE"}})]>>
    ELSE IF words # <<>> THEN <<words[1]>>
    ELSE <<>>

\* lines 512-519
_ysl_first_capitalized_word(name) ==
    IF name.t # "str" \/ name.s = <<>> THEN <<>>
    ELSE LET NotBlank(w) == w # " " IN FirstCapitalized(SelectSeq(name.s, NotBlank))

\* lines 526-527
YslCategory(rec) ==
    IF Truthy(DictGet(rec, "product_name"))
    THEN DictSet(rec, "category", PyStr(_ysl_first_capitalized_word(rec["product_name"])))
    ELSE rec

\* lines 522-532
ysl_normalize(item) ==
    PopAll(BackfillRegular(YslCategory(default_normalize(item))),
           {"rating", "rating_count", "attributes", "raw"})

(***************************************************************************)
(* Inputs of the chanel, lululemon and generic list parsers.               *)
(***************************************************************************)
\* entries of config.list.product_urls
ProductUrls ==
    LET url == <<"https://www.chanel.com", "/", "p", "/", "AS1160", "/", "classic-bag">>
    IN  { PyNone, PyStr(<<>>), PyStr(<<" ">>), PyStr(url), PyStr(<<" ">> \o url \o <<" ">>),
          PyStr(<<"https://www.chanel.com", "/", "p", "/", "AS1161">>) }

ChanelConfigs ==
    { [product_urls |-> us] : us \in SeqsUpTo(ProductUrls, MaxUrls) }
    \cup { [product_urls |-> <<u>>, brand |-> PyStr(<<"CHANEL">>)] : u \in ProductUrls }
    \cup { EmptyDict }

GridDocs == { [anchors |-> <<>>, grid |-> g] : g \in Grids }

GenericListParser(site, doc, config) ==
    CASE site = "louisvuitton" -> louisvuitton_list_parser(doc, config)
      [] site = "miumiu" -> miumiu_list_parser(doc, config)
      [] site = "prada" -> prada_list_parser(doc, config)
      [] site = "ysl" -> ysl_list_parser(doc, config)

\* product tiles that differ in their link, their attributes payload and
\* their price text
Tiles ==
    LET Link(href, attributes) == [present |-> TRUE, href |-> href, attributes |-> attributes]
        Tile(name, link, price, color_count) ==
            [name |-> name, link |-> link, price |-> price, color_count |-> color_count]
        rel == <<"/", "p", "/", "tops", "/", "Swiftly", "/", "_", "/", "prod1">>
    IN  { Tile(PyStr(<<"Swiftly">>),
               Link(h, PyStr(<<"{", "\"product\"", ":", "{", "\"productID\"", ":",
                               "\"LW3\"", "}", "}">>)),
               Element(PyNone, <<"Sale Price", "$", "5", "Regular Price", "$", "128">>),
               PyStr(<<"5", " ", "colours">>)) :
            h \in { PyStr(rel), PyStr(<<"http", "s://", "shop.lululemon.com">> \o rel),
                    PyStr(<<>>), PyNone } }
        \cup { Tile(PyStr(<<"Align">>), Link(PyStr(rel), j), NoElement, PyNone) :
                 j \in { PyNone, PyStr(<<>>), PyStr(<<"{", "}">>), PyStr(<<"[", "]">>),
                         PyStr(<<"{", "\"product\"", ":", "\"LW3\"", "}">>),
                         PyStr(<<"{", "oops">>) } }
        \cup { Tile(PyNone, [present |-> FALSE, href |-> PyNone, attributes |-> PyNone],
                    Element(PyNone, t), PyNone) :
                 t \in { <<"Regular Price", "$", "128">>, <<"Sale Price", "$", "5">>,
                         <<"$", "128">>, <<>> } }

LuluDocs == { [tiles |-> ts] : ts \in SeqsUpTo(Tiles, MaxTiles) }

LuluConfigs ==
    { EmptyDict,
      [base_url |-> PyStr(<<"https://", "shop.lululemon.com", "/">>),
       brand |-> PyStr(<<"Lululemon">>)],
      [base_url |-> PyNone] }

(***************************************************************************)
(* Inputs of the detail parsers and of the normalize overrides.            *)
(***************************************************************************)
PriceTexts == {<<>>, RmText, <<"Sold", " ", "out">>}

ImageUrl == <<"https://img.example", "/", "812345", "_F", ".jpg">>

BalenciagaDetailDocs ==
    LET BalenciagaDetail(name_el, desc_el, img_el, bread, btn, price_el, curr_el) ==
            [name_el |-> name_el, desc_el |-> desc_el, img_el |-> img_el, bread |-> bread,
             btn |-> btn, price_el |-> price_el, curr_el |-> curr_el]
    IN
    { BalenciagaDetail(Element(PyNone, <<"Le", " ", "Cagole">>), NoElement, NoImage, <<>>,
                       NoElement, Element(c, t), ce) :
        c \in Contents, t \in PriceTexts, ce \in CurrencyElements }
    \cup { BalenciagaDetail(NoElement, NoElement, NoImage, <<>>, NoElement, NoElement, ce) :
             ce \in CurrencyElements }
    \cup { BalenciagaDetail(n, Element(PyNone, <<"Leather">>), img, bread, btn,
                            NoElement, NoElement) :
             n \in {NoElement, Element(PyNone, <<"Le", " ", "Cagole">>)},
             img \in { NoImage, Image(PyStr(ImageUrl), PyNone), Image(PyNone, PyStr(ImageUrl)),
                       Image(PyStr(<<"https://img.example", "/", "hero", ".jpg">>), PyNone),
                       Image(PyNone, PyNone) },
             bread \in { <<>>, <<PyNone, PyStr(<<"Bags">>)>>, <<PyStr(<<>>)>> },
             btn \in { NoElement, Element(PyStr(<<"/cart?", "pid=", "AS1160", "&qty=1">>), <<>>),
                       Element(PyStr(<<"/cart?", "pid=", "&qty=1">>), <<>>) } }

\* details_el.segments: the texts between the line breaks of the details
ChanelDetailDocs ==
    LET Segments(segments) == [present |-> TRUE, segments |-> segments]
    IN
    { [desc_el |-> d, cat_el |-> c, details_el |-> det, price_el |-> pr, img_el |-> img] :
        d \in {NoElement, Element(PyNone, <<"CHANEL 22">>)},
        c \in {NoElement, Element(PyNone, <<>>), Element(PyNone, <<"Handbag">>)},
        det \in { [present |-> FALSE, segments |-> <<>>], Segments(<<>>), Segments(<<<<"Calfskin">>>>),
                  Segments(<<<<" ">>, <<"Calfskin">>, <<"Noir", ",", " ", "Blanc", ",">>>>) },
        pr \in { NoElement } \cup { Element(PyNone, t) : t \in PriceTexts },
        img \in { NoImage, Image(PyStr(<<" ">> \o ImageUrl), PyNone), Image(PyNone, PyNone) } }

YslDetailDocs ==
    { [price_el |-> pr, color_el |-> col, desc_el |-> d, img_el |-> img] :
        pr \in { NoElement } \cup { Element(PyNone, t) : t \in PriceTexts },
        col \in { NoElement, Element(PyNone, <<"Noir">>), Element(PyNone, <<"Other Colors">>),
                  Element(PyNone, <<>>) },
        d \in {NoElement, Element(PyNone, <<"Le 5 a 7">>)},
        img \in { NoImage, Image(PyStr(ImageUrl), PyNone) } }

MiumiuDetailDocs ==
    { [h1 |-> h, soon |-> so, color_label |-> l, color_value |-> v] :
        h \in {NoElement, Element(PyNone, <<>>), Element(PyNone, <<"Wander">>)},
        so \in BOOLEAN, l \in {NoElement, Element(PyNone, <<"Color">>)},
        v \in {NoElement, Element(PyNone, <<>>), Element(PyNone, <<"Noir">>)} }

PradaDetailDocs ==
    { [picture |-> pic, color_label |-> l, color_value |-> v] :
        pic \in {NoElement, Element(PyNone, <<>>), Element(PyStr(ImageUrl), <<>>)},
        l \in {NoElement, Element(PyNone, <<"Color">>)},
        v \in {NoElement, Element(PyNone, <<>>), Element(PyNone, <<"Noir">>)} }

LuluDetailDocs ==
    LET JsonLd(script, sku, rating_value, review_count, image) ==
            [script |-> script, sku |-> sku, rating_value |-> rating_value,
             review_count |-> review_count, image |-> image]
        LuluPricePayloads ==
            { [present |-> FALSE, list_price |-> <<>>, sale_price |-> <<>>],
              [present |-> TRUE, list_price |-> <<"128", ".", "0">>,
               sale_price |-> <<"5", ".", "0">>],
              [present |-> TRUE, list_price |-> <<"128">>,
               sale_price |-> <<"1", ".", "5", ".", "0">>],
              [present |-> TRUE, list_price |-> <<".">>, sale_price |-> <<"5">>] }
    IN
    { [present |-> pr, ld |-> JsonLd(sc, PyNone, PyNone, PyNone, PyNone), prices |-> pp,
       description |-> PyNone, colors |-> PyNone] :
        pr \in BOOLEAN, sc \in {"absent", "invalid", "empty", "list"}, pp \in LuluPricePayloads }
    \cup { [present |-> TRUE,
            ld |-> JsonLd("dict", sku, rv, PyInt(5), PyStr(ImageUrl)),
            prices |-> pp, description |-> PyStr(<<"Why we made this">>), colors |-> cl] :
             sku \in {PyNone, PyStr(<<"prod1">>)},
             rv \in { PyNone, PyStr(<<"null">>), PyStr(<<"5", ".", "0">>), PyStr(<<"abc">>),
                      PyFloat(5, <<"0">>) },
             pp \in LuluPricePayloads,
             cl \in { PyNone, PyList(<<"Black", "Navy">>) } }

\* the partial functions from the keys ks to the values of vs(k)
RECURSIVE Dicts(_, _)
Dicts(ks, vs) ==
    IF ks = {} THEN {EmptyDict}
    ELSE LET k == CHOOSE x \in ks : TRUE
         IN  Dicts(ks \ {k}, vs)
             \cup { DictSet(d, k, v) : d \in Dicts(ks \ {k}, vs), v \in vs[k] }

RawItems ==
    { d : d \in Dicts({"product_name", "sale_price", "regular_price", "rating_n"},
                      [product_name |-> {PyStr(<<"le", " ", "Sac">>), PyStr(<<"sac", " ", "de", " ", "jour">>)},
                       sale_price |-> {PyNone, PyInt(199)},
                       regular_price |-> {PyNone, PyInt(250)},
                       rating_n |-> {PyInt(5)}]) }
    \cup { d : d \in Dicts({"sale_price", "rating", "rating_count", "raw", "attributes", "productID"},
                      [sale_price |-> {PyInt(199)},
                       rating |-> {PyNone},
                       rating_count |-> {PyInt(7)},
                       raw |-> {PyStr(<<"<html>">>)},
                       attributes |-> {PyList(<<>>)},
                       productID |-> {PyStr(<<"AS1160">>)}]) }

(***************************************************************************)
(* Actions.                                                                *)
(***************************************************************************)
Init ==
    /\ pc = "start"
    /\ arg = <<>>
    /\ calls = <<>>
    /\ ret = Return(<<>>)

\* the caller drops the outcome of the last call and is idle again
Done ==
    /\ pc # "start"
    /\ pc' = "start"
    /\ arg' = <<>>
    /\ calls' = <<>>
    /\ ret' = Return(<<>>)

GetParsers ==
    /\ pc = "start"
    /\ \E site_id \in SiteIdInputs :
          /\ pc' = "get_parsers"
          /\ arg' = <<site_id>>
          /\ calls' = <<"get_parsers">>
          /\ ret' = get_parsers(site_id)

BalenciagaListParser ==
    /\ pc = "start"
    /\ \E doc \in BalenciagaDocs, config \in BalenciagaConfigs :
          /\ pc' = "balenciaga_list_parser"
          /\ arg' = <<doc, config>>
          /\ \E r \in {balenciaga_list_parser(doc, config)} :
                calls' = r.calls /\ ret' = r.ret

ChanelListParser ==
    /\ pc = "start"
    /\ \E doc \in GridDocs, config \in ChanelConfigs :
          /\ "product_urls" \in DOMAIN config \/ doc.grid # <<>>
          /\ pc' = "chanel_list_parser"
          /\ arg' = <<doc, config>>
          /\ calls' = IF "product_urls" \in DOMAIN config /\ config.product_urls # <<>>
                       THEN <<>> ELSE <<"parse_list_generic">>
          /\ ret' = chanel_list_parser(doc, config)

GenericSiteListParser ==
    /\ pc = "start"
    /\ \E site \in {"louisvuitton", "miumiu", "prada", "ysl"},
          doc \in GridDocs, config \in BalenciagaConfigs :
          /\ pc' = Registered(site)["list_parser"]
          /\ arg' = <<doc, config>>
          /\ calls' = <<"parse_list_generic">>
          /\ ret' = GenericListParser(site, doc, config)

LululemonListParser ==
    /\ pc = "start"
    /\ \E doc \in LuluDocs, config \in LuluConfigs :
          /\ pc' = "lululemon_list_parser"
          /\ arg' = <<doc, config>>
          /\ calls' = [i \in 1..Len(LuluErrors(doc.tiles, config)) |-> "print"]
          /\ ret' = lululemon_list_parser(doc, config)

\* a detail parser ignores its configuration
DetailCall(name, raw, outcome) ==
    /\ pc' = name
    /\ arg' = <<raw, EmptyDict>>
    /\ calls' = <<>>
    /\ ret' = outcome

BalenciagaDetailParser ==
    /\ pc = "start"
    /\ \E raw \in BalenciagaDetailDocs :
          DetailCall("balenciaga_detail_parser", raw, balenciaga_detail_parser(raw, EmptyDict))

ChanelDetailParser ==
    /\ pc = "start"
    /\ \E raw \in ChanelDetailDocs :
          DetailCall("chanel_detail_parser", raw, chanel_detail_parser(raw, EmptyDict))

LouisvuittonDetailParser ==
    /\ pc = "start"
    /\ \E raw \in PradaDetailDocs :
          DetailCall("louisvuitton_detail_parser", raw,
                     louisvuitton_detail_parser(raw, EmptyDict))

LululemonDetailParser ==
    /\ pc = "start"
    /\ \E raw \in LuluDetailDocs :
          DetailCall("lululemon_detail_parser", raw, lululemon_detail_parser(raw, EmptyDict))

MiumiuDetailParser ==
    /\ pc = "start"
    /\ \E raw \in MiumiuDetailDocs :
          DetailCall("miumiu_detail_parser", raw, miumiu_detail_parser(raw, EmptyDict))

PradaDetailParser ==
    /\ pc = "start"
    /\ \E raw \in PradaDetailDocs :
          DetailCall("prada_detail_parser", raw, prada_detail_parser(raw, EmptyDict))

YslDetailParser ==
    /\ pc = "start"
    /\ \E raw \in YslDetailDocs :
          DetailCall("ysl_detail_parser", raw, ysl_detail_parser(raw, EmptyDict))

NormalizeCall(name, item, rec) ==
    /\ pc' = name
    /\ arg' = <<item>>
    /\ calls' = <<"default_normalize">>
    /\ ret' = Return(rec)

ChanelNormalize ==
    /\ pc = "start"
    /\ \E item \in RawItems :
          NormalizeCall("chanel_normalize", item, chanel_normalize(item))

YslNormalize ==
    /\ pc = "start"
    /\ \E item \in RawItems :
          NormalizeCall("ysl_normalize", item, ysl_normalize(item))

\* the record a normalize override returned is normalized again
ChanelNormalizeAgain ==
    /\ pc = "chanel_normalize"
    /\ NormalizeCall("chanel_normalize", ret.val, chanel_normalize(ret.val))

YslNormalizeAgain ==
    /\ pc = "ysl_normalize"
    /\ NormalizeCall("ysl_normalize", ret.val, ysl_normalize(ret.val))

Next ==
    \/ GetParsers
    \/ BalenciagaListParser
    \/ ChanelListParser
    \/ GenericSiteListParser
    \/ LululemonListParser
    \/ BalenciagaDetailParser
    \/ ChanelDetailParser
    \/ LouisvuittonDetailParser
    \/ LululemonDetailParser
    \/ MiumiuDetailParser
    \/ PradaDetailParser
    \/ YslDetailParser
    \/ ChanelNormalize
    \/ YslNormalize
    \/ ChanelNormalizeAgain
    \/ YslNormalizeAgain
    \/ Done

Spec == Init /\ [][Next]_vars

(***************************************************************************)
(* Properties.                                                             *)
(***************************************************************************)
ListParserNames == { Registered(site)["list_parser"] : site \in SITE_IDS }
DetailParserNames == { Registered(site)["detail_parser"] : site \in SITE_IDS }

Returned == ret.exc = "none"

C2_KnownSiteCapabilities ==
    (pc = "get_parsers" /\ arg[1] \in SITE_IDS)
        => /\ Returned
           /\ DOMAIN ret.val = {"list_parser", "detail_fetcher", "detail_parser", "normalize"}
           /\ ret.val["list_parser"] # "None"
           /\ ret.val["detail_fetcher"] = "None"
           /\ (ret.val["normalize"] = "None") <=> (arg[1] \notin {"chanel", "ysl"})

C2_KnownSiteCalled ==
    pc = "get_parsers" /\ arg[1] = "prada" /\ Returned /\ ret.val["normalize"] = "None"

\* the product_link of the i-th record of the returned sequence
LinkOf(i) == DictGet(ret.val[i], "product_link")

\* C3: every record a list parser returns has a non-empty product_link, and
\* no two records of one returned sequence share a product_link.
C3_LinksNonEmptyAndUnique ==
    (pc \in ListParserNames /\ Returned)
        => /\ \A i \in 1..Len(ret.val) : Truthy(LinkOf(i))
           /\ \A i, j \in 1..Len(ret.val) : LinkOf(i) = LinkOf(j) => i = j

\* the anchors the fallback builds an item for, in document order
Harvested(doc) ==
    LET Kept(a) == SelectsAnchor(a) /\ KeepsAnchor(a) IN SelectSeq(doc.anchors, Kept)

FallbackInvoked == Contains(calls, "_balenciaga_parse_by_product_links")

\* positions i < j of harvested anchors, one with a relative and one with an
\* absolute href, that resolve to the same link
SameLinkPair(K, config, i, j) ==
    /\ i < j
    /\ ProductLink(K[i], config) = ProductLink(K[j], config)
    /\ StartsWith(K[i].href.s, "/") # StartsWith(K[j].href.s, "/")

\* the first harvested anchor that resolves to the link
FirstWithLink(K, config, link) ==
    CHOOSE i \in 1..Len(K) :
        /\ ProductLink(K[i], config) = link
        /\ \A j \in 1..(i - 1) : ProductLink(K[j], config) # link

\* the returned records are the first anchors of their links, in document order
FirstOccurrenceOrder(K, config) ==
    /\ \A p \in 1..Len(ret.val) :
          /\ \E i \in 1..Len(K) : ProductLink(K[i], config) = LinkOf(p).s
          /\ ret.val[p].product_name = PyStr(AnchorName(K[FirstWithLink(K, config, LinkOf(p).s)]))
          /\ ret.val[p].sale_price = AnchorPrice(K[FirstWithLink(K, config, LinkOf(p).s)]).sale_price
    /\ \A p, q \in 1..Len(ret.val) :
          p < q => FirstWithLink(K, config, LinkOf(p).s) < FirstWithLink(K, config, LinkOf(q).s)

\* C4: in the balenciaga fallback, when a relative and an absolute anchor
\* resolve to the same link, the output holds exactly one record for that
\* link, with the name and price of the first anchor, and the records are in
\* the document order of the first occurrence of their links.
C4_OneRecordPerLinkFirstWins ==
    (pc = "balenciaga_list_parser" /\ FallbackInvoked
       /\ \E i, j \in 1..Len(Harvested(arg[1])) : SameLinkPair(Harvested(arg[1]), arg[2], i, j))
        => /\ Returned
           /\ \A i, j \in 1..Len(Harvested(arg[1])) :
                 SameLinkPair(Harvested(arg[1]), arg[2], i, j)
                    => Cardinality({p \in 1..Len(ret.val) :
                          LinkOf(p).s = ProductLink(Harvested(arg[1])[i], arg[2])}) = 1
           /\ FirstOccurrenceOrder(Harvested(arg[1]), arg[2])

\* the part of C4 that is about the sequence the fallback returns
ReturnedFallbackDeduplicates ==
    (pc = "balenciaga_list_parser" /\ FallbackInvoked /\ Returned)
        => /\ \A i \in 1..Len(Harvested(arg[1])) :
                 Cardinality({p \in 1..Len(ret.val) :
                    LinkOf(p).s = ProductLink(Harvested(arg[1])[i], arg[2])}) = 1
           /\ FirstOccurrenceOrder(Harvested(arg[1]), arg[2])

\* C5: balenciaga_list_parser invokes the fallback exactly when the generic
\* extractor returned no item; a non-empty generic result is returned
\* unchanged; and when the generic extractor returned nothing and the document
\* holds a product-shaped anchor the result is a non-empty sequence.
C5_FallbackOnlyWhenGenericEmpty ==
    pc = "balenciaga_list_parser"
        => /\ FallbackInvoked <=> (parse_list_generic(arg[1], arg[2]) = <<>>)
           /\ parse_list_generic(arg[1], arg[2]) # <<>>
                 => ret = Return(parse_list_generic(arg[1], arg[2]))
           /\ (parse_list_generic(arg[1], arg[2]) = <<>> /\ Harvested(arg[1]) # <<>>)
                 => (Returned /\ ret.val # <<>>)

\* the part of C5 that is about which strategy runs
FallbackIffGenericEmpty ==
    pc = "balenciaga_list_parser"
        => /\ FallbackInvoked <=> (parse_list_generic(arg[1], arg[2]) = <<>>)
           /\ parse_list_generic(arg[1], arg[2]) # <<>>
                 => ret = Return(parse_list_generic(arg[1], arg[2]))
           /\ (parse_list_generic(arg[1], arg[2]) = <<>> /\ Harvested(arg[1]) # <<>> /\ Returned)
                 => ret.val # <<>>

\* C6: every list parser returns a sequence and never raises.
C6_ListParsersNeverRaise == pc \in ListParserNames => Returned

\* C7: every detail parser returns a mapping and never raises.
C7_DetailParsersNeverRaise == pc \in DetailParserNames => Returned

\* None, or an integer that is not negative
IsPrice(v) == v.t = "None" \/ (v.t = "int" /\ v.n >= 0)

PricesOk(rec) == IsPrice(DictGet(rec, "sale_price")) /\ IsPrice(DictGet(rec, "regular_price"))

\* C8: in every record a list parser or a detail parser produces, sale_price
\* and regular_price are each None or absent, or a non-negative integer.
C8_PricesAreNonNegativeIntegers ==
    /\ (pc \in ListParserNames /\ Returned) => \A i \in 1..Len(ret.val) : PricesOk(ret.val[i])
    /\ (pc \in DetailParserNames /\ Returned) => PricesOk(ret.val)

\* C9: chanel_normalize and ysl_normalize are idempotent: normalizing the
\* record either of them returned gives that record again.
C9_NormalizeIdempotent ==
    /\ pc = "chanel_normalize" => chanel_normalize(ret.val) = ret.val
    /\ pc = "ysl_normalize" => ysl_normalize(ret.val) = ret.val

\* a record that was backfilled and stripped has been normalized a second time
C9_NormalizedTwice ==
    /\ pc = "chanel_normalize"
    /\ arg[1] = ret.val
    /\ "product_id" \in DOMAIN ret.val
    /\ DictGet(ret.val, "regular_price") = PyInt(199)

Known(rec, key) == ~IsNone(DictGet(rec, key))

\* C10: after chanel_normalize or ysl_normalize a record with a known
\* sale_price and no regular_price has regular_price equal to sale_price, a
\* known regular_price is unchanged, and rating, rating_count and raw (and
\* attributes for ysl) are absent.
C10_BackfillAndStrip ==
    pc \in {"chanel_normalize", "ysl_normalize"}
        => /\ (Known(arg[1], "sale_price") /\ ~Known(arg[1], "regular_price"))
                 => (/\ DictGet(ret.val, "regular_price") = arg[1]["sale_price"]
                     /\ DictGet(ret.val, "sale_price") = arg[1]["sale_price"])
           /\ Known(arg[1], "regular_price")
                 => DictGet(ret.val, "regular_price") = arg[1]["regular_price"]
           /\ DOMAIN ret.val \cap {"rating", "rating_count", "raw"} = {}
           /\ pc = "ysl_normalize" => "attributes" \notin DOMAIN ret.val

C10_BackfilledAndStripped ==
    /\ pc = "ysl_normalize"
    /\ Known(arg[1], "sale_price") /\ ~Known(arg[1], "regular_price")
    /\ {"rating", "rating_count", "raw", "attributes"} \subseteq DOMAIN arg[1]
    /\ DictGet(ret.val, "regular_price") = PyInt(199)

\* C11: in lululemon_list_parser a failure while processing one product tile
\* skips exactly that tile: the call returns, with one record for every other
\* tile, in document order (and one message printed per skipped tile).
C11_FailedTileSkipped ==
    pc = "lululemon_list_parser"
        => LET Ok(t) == LuluTile(t, arg[2]).exc = "none"
               kept == SelectSeq(arg[1].tiles, Ok)
           IN  /\ Returned
               /\ Len(ret.val) = Len(kept)
               /\ \A i \in 1..Len(kept) : ret.val[i] = LuluTile(kept[i], arg[2]).item
               /\ Len(calls) = Len(arg[1].tiles) - Len(kept)

\* a tile with an unparsable attributes payload is followed by a sound tile
C11_BadTileThenGoodTile ==
    /\ pc = "lululemon_list_parser"
    /\ Len(arg[1].tiles) = 2
    /\ LuluTile(arg[1].tiles[1], arg[2]).exc = "JSONDecodeError"
    /\ LuluTile(arg[1].tiles[2], arg[2]).exc = "none"
    /\ Returned
    /\ Len(ret.val) = 1
    /\ ret.val[1].product_name = PyStr(<<"Swiftly">>)
    /\ calls = <<"print">>

\* C12: in the balenciaga fallback the price of an anchor comes from the first
\* of at most 8 ancestors that holds price microdata, a numeric content
\* attribute being preferred over the visible text and truncated to an integer
\* (content "499.0" gives 499); the walk over at most 5 ancestors for a
\* currency-prefixed number in the visible text is made only if no price
\* microdata was found within the first bound.  Stated for the calls that
\* return, over the anchor that gave each record.
C12_PriceFromMicrodataElseText ==
    (pc = "balenciaga_list_parser" /\ FallbackInvoked /\ Returned)
        => \A p \in 1..Len(ret.val) :
              LET anc == Harvested(arg[1])[FirstWithLink(Harvested(arg[1]), arg[2],
                                                        LinkOf(p).s)].ancestors
                  found == {k \in 1..PriceWalkDepth :
                              k <= Len(anc) /\ anc[k].price_el.present}
                  first == CHOOSE k \in found : \A j \in found : k <= j
                  price_text == TextWalk(anc, 1, TextWalkDepth)
              IN  IF found # {}
                  THEN ret.val[p].sale_price =
                          SaleFromMicrodata(anc[first].price_el,
                                            TryContent(anc[first].price_el.content))
                  ELSE ret.val[p].sale_price =
                          (IF Truthy(price_text) THEN extract_int_price(price_text) ELSE PyNone)

\* C13: in the balenciaga fallback an anchor with non-empty text keeps its own
\* text as product_name; otherwise the name is the text of the first heading
\* with non-empty text within at most 5 ancestors of the anchor, and the
\* placeholder "(no name)" if there is none.  Stated for the calls that
\* return, over the anchor that gave each record.
C13_HeadingOnlyWhenAnchorTextEmpty ==
    (pc = "balenciaga_list_parser" /\ FallbackInvoked /\ Returned)
        => \A p \in 1..Len(ret.val) :
              LET a == Harvested(arg[1])[FirstWithLink(Harvested(arg[1]), arg[2],
                                                      LinkOf(p).s)]
                  headed == {k \in 1..NameWalkDepth :
                               /\ k <= Len(a.ancestors)
                               /\ a.ancestors[k].heading.t = "str"
                               /\ a.ancestors[k].heading.s # <<>>}
                  first == CHOOSE k \in headed : \A j \in headed : k <= j
              IN  ret.val[p].product_name =
                      (IF a.text # <<>> THEN PyStr(a.text)
                       ELSE IF headed # {} THEN PyStr(a.ancestors[first].heading.s)
                       ELSE PyStr(<<"(no name)">>))

====
